---- MODULE Spec2Model ----
(***************************************************************************)
(* A model of util.py: weighted random choice, random spanning trees,      *)
(* connected G(N,p) graphs, mean degree, row-stochastic normalisation, the *)
(* Friedkin-Johnsen equilibrium and the saving of simulation data.         *)
(*                                                                         *)
(* Real numbers are fixed-point: the integer k stands for k / Scale, so    *)
(* the weight 1 is Scale and a draw of rand.random(), which lies in        *)
(* [0, 1), is one of 0 .. Scale-1.  Quotients are kept as pairs            *)
(* <<numerator, denominator>>, a zero denominator being numpy's nan/inf.   *)
(***************************************************************************)
EXTENDS Integers, Sequences, FiniteSets, TLC

VARIABLES
    weights, r, choice,                       \* rchoice: input, draw, outcome
    tN, tNodes, tWeighted, tA,                \* randomSpanningTree: inputs, draws, result
    N, p, rand_weights, verbose, tree, A, i, j, pc, deg, ret,  \* gnp: arguments, locals, position, printed mean degree, result
    eqA, eqS, eqX,                            \* expectedEquilibrium: inputs, outcome
    cwd, dirs, files, calls                   \* saveModelData: the process and the file system

rcVars   == <<weights, r, choice>>
treeVars == <<tN, tNodes, tWeighted, tA>>
gnpVars  == <<N, p, rand_weights, verbose, tree, A, i, j, pc, deg, ret>>
eqVars   == <<eqA, eqS, eqX>>
saveVars == <<cwd, dirs, files, calls>>
vars     == <<rcVars, treeVars, gnpVars, eqVars, saveVars>>

\* ------------------------------------------------------------------ bounds
Scale     == 2     \* fixed-point resolution: k stands for k / Scale
MaxK      == 3     \* longest weight vector given to rchoice
MaxN      == 4     \* most nodes given to randomSpanningTree
MaxGnpN   == 3     \* most nodes given to gnp
MaxEqN    == 2     \* largest system given to expectedEquilibrium
MaxCalls  == 3     \* most saveModelData calls of one process

\* ----------------------------------------------------------------- helpers
One == Scale                       \* the weight 1 (binary edges)
Draws == 0 .. (Scale - 1)          \* the values of rand.random(), in [0, 1)
Idx(n) == 0 .. (n - 1)
Cells(n) == Idx(n) \X Idx(n)
Zeros(n) == [c \in Cells(n) |-> 0]                      \* np.zeros((N, N))
Perms(n) == {f \in [Idx(n) -> Idx(n)] :
                \A a, b \in Idx(n) : a # b => f[a] # f[b]}   \* rand.permutation(N)

None == [kind |-> "none"]

\* ----------------------------------------------------------------- rchoice
\* np.nonzero(weights)[0]: the indices of the nonzero entries, ascending.
RECURSIVE NonzeroFrom(_, _)
NonzeroFrom(w, k) ==
    IF k >= Len(w) THEN <<>>
    ELSE IF w[k + 1] # 0 THEN <<k>> \o NonzeroFrom(w, k + 1)
    ELSE NonzeroFrom(w, k + 1)

AllIndices(w) == [k \in 1 .. Len(w) |-> k - 1]

positive_probs(w) == NonzeroFrom(w, 0)

Strictly(rr, s) == rr < s

\* The test of line 42.
Reached(rr, s) == rr <= s

\* The loop of lines 40-43 over pp from position k with running sum s, then
\* the raise of line 45.  weights are 1-indexed sequences, indices 0-based.
RECURSIVE rchoiceLoop(_, _, _, _, _)
rchoiceLoop(w, pp, rr, k, s) ==
    IF k > Len(pp) THEN [kind |-> "error"]
    ELSE LET s2 == s + w[pp[k] + 1]
         IN  IF Reached(rr, s2) THEN [kind |-> "return", index |-> pp[k]]
             ELSE rchoiceLoop(w, pp, rr, k + 1, s2)

rchoice(w, rr) == rchoiceLoop(w, positive_probs(w), rr, 1, 0)

WeightVals == -1 .. Scale
WeightVectors == UNION {[1 .. k -> WeightVals] : k \in 1 .. MaxK}

RchoiceCall ==
    /\ choice = None
    /\ \E w \in WeightVectors, rr \in Draws :
         /\ weights' = w
         /\ r' = rr
         /\ choice' = rchoice(w, rr)
    /\ UNCHANGED <<treeVars, gnpVars, eqVars, saveVars>>

\* ------------------------------------------------------ randomSpanningTree
\* The loop of lines 78-81 from iteration k; ws[k] is the weight of iteration k.
RECURSIVE treeLoop(_, _, _, _, _)
treeLoop(M, n, nodes, ws, k) ==
    IF k >= n THEN M
    ELSE treeLoop([M EXCEPT ![<<nodes[k - 1], nodes[k]>>] = ws[k],
                            ![<<nodes[k], nodes[k - 1]>>] = ws[k]],
                  n, nodes, ws, k + 1)

treeShort(n, nodes, rw, draws) ==
    treeLoop(Zeros(n), n - 1, nodes, [k \in 1 .. (n - 1) |-> IF rw THEN draws[k] ELSE One], 1)

\* nodes is the permutation drawn at line 75, draws[k] the value rand.random()
\* returns in iteration k (used only when rand_weights is set).
randomSpanningTree(n, nodes, rw, draws) ==
    treeLoop(Zeros(n), n, nodes, [k \in 1 .. (n - 1) |-> IF rw THEN draws[k] ELSE One], 1)

RandomSpanningTreeCall ==
    /\ tA = None
    /\ \E n \in 1 .. MaxN, rw \in BOOLEAN :
         \E nodes \in Perms(n) :
           \E draws \in (IF rw THEN [1 .. (n - 1) -> Draws] ELSE {[k \in 1 .. (n - 1) |-> 0]}) :
             /\ tN' = n
             /\ tNodes' = nodes
             /\ tWeighted' = rw
             /\ tA' = randomSpanningTree(n, nodes, rw, draws)
    /\ UNCHANGED <<rcVars, gnpVars, eqVars, saveVars>>

\* --------------------------------------------------------- graph predicates
Symmetric(M, n) == \A c \in Cells(n) : M[c] = M[<<c[2], c[1]>>]
ZeroDiagonal(M, n) == \A a \in Idx(n) : M[<<a, a>>] = 0
\* The undirected edges between distinct nodes: unordered pairs with a nonzero entry.
Edges(M, n) == {e \in SUBSET Idx(n) : /\ Cardinality(e) = 2
                                      /\ \E a, b \in e : a # b /\ (M[<<a, b>>] # 0 \/ M[<<b, a>>] # 0)}
RECURSIVE Reach(_, _)
Reach(E, S) ==
    LET S2 == S \cup {b \in UNION E : \E e \in E : b \in e /\ e \cap S # {}}
    IN  IF S2 = S THEN S ELSE Reach(E, S2)
Connected(E, n) == Reach(E, {0}) = Idx(n)

\* ---------------------------------------------------- rowStochastic, meanDegree
RECURSIVE SumOver(_, _)
SumOver(f, S) == IF S = {} THEN 0
                 ELSE LET x == CHOOSE y \in S : TRUE IN f[x] + SumOver(f, S \ {x})
RowSum(M, n, a) == SumOver([b \in Idx(n) |-> M[<<a, b>>]], Idx(n))    \* A.sum(axis=1)

\* A / A.sum(axis=1, keepdims=True): every entry over the sum of its row.
rowStochastic(M, n) == [c \in Cells(n) |-> <<M[c], RowSum(M, n, c[1])>>]

\* Lines 96-100: B is a copy of A with its positive entries set to 1; the mean of
\* B's row sums, as the pair <<sum of the degrees, N>>.
meanDegree(M, n) ==
    LET B == [c \in Cells(n) |-> IF M[c] > 0 THEN 1 ELSE M[c]]
        degrees == [a \in Idx(n) |-> RowSum(B, n, a)]
    IN  <<SumOver(degrees, Idx(n)), n>>

\* --------------------------------------------------------------------- gnp
\* Line 127 and the entry into the loops of lines 128-129.  p is in [0, 1]:
\* one of 0 .. Scale.
GnpCall ==
    /\ pc = "idle"
    /\ \E n \in 1 .. MaxGnpN, pp \in 0 .. Scale, rw \in BOOLEAN, vb \in BOOLEAN :
         \E nodes \in Perms(n) :
           /\ N' = n
           /\ p' = pp
           /\ rand_weights' = rw
           /\ verbose' = vb
           /\ A' = randomSpanningTree(n, nodes, FALSE, <<>>)
           /\ tree' = A'
    /\ i' = 0
    /\ j' = 0
    /\ pc' = "loop"
    /\ UNCHANGED <<deg, ret>>
    /\ UNCHANGED <<rcVars, treeVars, eqVars, saveVars>>

\* One iteration of the inner loop, lines 130-134, for the pair (i, j).
GnpIter ==
    /\ pc = "loop"
    /\ i < N
    /\ \E rr \in Draws :
         IF rr < p
         THEN \E w \in (IF rand_weights THEN Draws ELSE {One}) :
                A' = [A EXCEPT ![<<i, j>>] = w, ![<<j, i>>] = w]
         ELSE A' = A
    /\ IF j + 1 < N THEN j' = j + 1 /\ i' = i
                    ELSE j' = 0 /\ i' = i + 1
    /\ UNCHANGED <<N, p, rand_weights, verbose, tree, pc, deg, ret>>
    /\ UNCHANGED <<rcVars, treeVars, eqVars, saveVars>>

\* Lines 136-143, after the loops: the print, the normalisation, the return.
GnpReturn ==
    /\ pc = "loop"
    /\ i = N
    /\ deg' = IF verbose THEN meanDegree(A, N) ELSE None
    /\ ret' = IF rand_weights THEN rowStochastic(A, N) ELSE A
    /\ pc' = "done"
    /\ UNCHANGED <<N, p, rand_weights, verbose, tree, A, i, j>>
    /\ UNCHANGED <<rcVars, treeVars, eqVars, saveVars>>

\* ------------------------------------------------------------------ rchoice claims
\* The running sum over the nonzero-weight indices up to and including index k.
RECURSIVE SumUpTo(_, _)
SumUpTo(w, k) == IF k < 0 THEN 0 ELSE w[k + 1] + SumUpTo(w, k - 1)
\* The nonzero-weight indices whose running sum reaches or exceeds the draw.
Reaching(w, rr) == {k \in Idx(Len(w)) : w[k + 1] # 0 /\ SumUpTo(w, k) >= rr}

\* C3: whenever rchoice returns, the index is in [0, K), its weight is nonzero
\* and it is the smallest nonzero-weight index whose running sum reaches or
\* exceeds r; a zero-weight index is never returned, also when r = 0.
C3_ReturnsFirstReaching ==
    choice.kind = "return" =>
        /\ choice.index \in Idx(Len(weights))
        /\ weights[choice.index + 1] # 0
        /\ choice.index \in Reaching(weights, r)
        /\ \A k \in Reaching(weights, r) : choice.index <= k

\* A draw of r = 0 over a vector that starts with a zero weight returns a later index.
C3_Witness ==
    /\ choice.kind = "return"
    /\ r = 0
    /\ Len(weights) = 3
    /\ weights[1] = 0
    /\ weights[2] = 0
    /\ choice.index = 2

\* C4: rchoice fails, returning no index, exactly when the running sum over the
\* nonzero-weight indices never reaches r; an all-zero vector fails for every
\* draw, r = 0 included, and no call returns an out-of-range index.
C4_FailsExactlyWhenUnreached ==
    choice # None =>
        /\ (choice.kind = "error") <=> (Reaching(weights, r) = {})
        /\ (\A k \in 1 .. Len(weights) : weights[k] = 0) => choice.kind = "error"
        /\ choice.kind = "return" => choice.index \in Idx(Len(weights))

\* An all-zero vector with the draw r = 0 fails.
C4_Witness ==
    /\ choice.kind = "error"
    /\ r = 0
    /\ Len(weights) = 2
    /\ \A k \in 1 .. Len(weights) : weights[k] = 0

\* ------------------------------------------------------- randomSpanningTree claims
IsSpanningTree(M, n) ==
    /\ DOMAIN M = Cells(n)
    /\ Symmetric(M, n)
    /\ ZeroDiagonal(M, n)
    /\ Cardinality(Edges(M, n)) = n - 1
    /\ Connected(Edges(M, n), n)
    /\ \A e \in Edges(M, n) : ~Connected(Edges(M, n) \ {e}, n)

\* C1: randomSpanningTree(N) returns a symmetric N x N matrix with a zero
\* diagonal whose nonzero entries form exactly N-1 undirected edges that connect
\* all N nodes in one component with no cycle; for N = 1 the 1x1 zero matrix.
C1_SpanningTree ==
    (tA # None /\ ~tWeighted) =>
        /\ IsSpanningTree(tA, tN)
        /\ tN = 1 => tA = Zeros(1)

\* A tree on the most nodes that is not the path 0-1-2-...: the permutation matters.
C1_Witness ==
    /\ tA # None
    /\ ~tWeighted
    /\ tN = MaxN
    /\ tA[<<0, tN - 1>>] # 0
    /\ tA[<<0, 1>>] = 0

\* --------------------------------------------------------------------- gnp claims
\* An entry of the returned matrix is nonzero: a quotient is nonzero when its
\* numerator is, and a quotient by zero (nan) is not the number 0 either.
RetNonzero(c) == IF rand_weights THEN ret[c][1] # 0 \/ ret[c][2] = 0 ELSE ret[c] # 0
RetEdges == {e \in SUBSET Idx(N) : /\ Cardinality(e) = 2
                                   /\ \E a, b \in e : a # b /\ (RetNonzero(<<a, b>>) \/ RetNonzero(<<b, a>>))}

\* C2: gnp(N, p) returns a connected graph: every edge of the initial spanning
\* tree is still a nonzero entry of the result, whatever the loop overwrites, in
\* either weight mode; with p = 0 the result has exactly the tree's N-1 edges.
C2_TreeEdgesSurvive ==
    pc = "done" =>
        /\ \A c \in Cells(N) : tree[c] # 0 => RetNonzero(c)
        /\ Connected(RetEdges, N)
        /\ p = 0 => (RetEdges = Edges(tree, N) /\ Cardinality(RetEdges) = N - 1)

\* C7: for every binary matrix the generators return, meanDegree is
\* (2 x the number of undirected edges between distinct nodes) / N.
C7_MeanDegreeIsTwiceEdges ==
    (pc = "done" /\ ~rand_weights /\ verbose) =>
        deg[1] * N = 2 * Cardinality(Edges(ret, N)) * deg[2]

\* C8: at the point where weighted mode passes gnp's matrix to rowStochastic,
\* each row has at least one nonzero entry, so no row sum is zero.
C8_NoZeroRow ==
    (pc = "loop" /\ i = N /\ rand_weights) =>
        \A a \in Idx(N) : (\E b \in Idx(N) : A[<<a, b>>] # 0) /\ RowSum(A, N, a) # 0

\* C9: the pairs with i = j have no effect: every diagonal entry of the matrix
\* built by the edge-sampling loop is 0, as in the initial spanning tree.
C9_DiagonalStaysZero ==
    pc \in {"loop", "done"} => ZeroDiagonal(A, N)

\* ---------------------------------------------------------- expectedEquilibrium
\* Matrices of weights are fixed-point (the entry k stands for k / Scale); the
\* belief vector s holds plain integers.
Eye(n) == [c \in Cells(n) |-> IF c[1] = c[2] THEN Scale ELSE 0]          \* np.eye(N)
MatSub(P, Q, n) == [c \in Cells(n) |-> P[c] - Q[c]]
MatMul(P, Q, n) == [c \in Cells(n) |->
                      SumOver([b \in Idx(n) |-> P[<<c[1], b>>] * Q[<<b, c[2]>>]], Idx(n))]
MatVec(P, v, n) == [a \in Idx(n) |->
                      SumOver([b \in Idx(n) |-> P[<<a, b>>] * v[b]], Idx(n))]

\* The matrix without row a and column b.
Minor(M, n, a, b) ==
    [c \in Cells(n - 1) |-> M[<<IF c[1] < a THEN c[1] ELSE c[1] + 1,
                                IF c[2] < b THEN c[2] ELSE c[2] + 1>>]]
Sign(k) == IF k % 2 = 0 THEN 1 ELSE -1
RECURSIVE Det(_, _)
Det(M, n) ==
    IF n = 0 THEN 1
    ELSE IF n = 1 THEN M[<<0, 0>>]
    ELSE SumOver([b \in Idx(n) |-> Sign(b) * M[<<0, b>>] * Det(Minor(M, n, 0, b), n - 1)], Idx(n))
Adjugate(M, n) == [c \in Cells(n) |-> Sign(c[1] + c[2]) * Det(Minor(M, n, c[2], c[1]), n - 1)]

\* numpy.linalg.inv: the exact inverse, adjugate over determinant, the two kept
\* apart; a singular matrix raises LinAlgError.
inv(M, n) == IF Det(M, n) = 0 THEN [kind |-> "error"]
             ELSE [kind |-> "return", adj |-> Adjugate(M, n), det |-> Det(M, n)]

WholeMatrix(M, n) == M

\* np.diag(np.diag(A)), line 213.
diagOf(M, n) == [c \in Cells(n) |-> IF c[1] = c[2] THEN M[c] ELSE 0]

EyeMinusA(M, n) == MatSub(Eye(n), M, n)

\* np.eye(N) - (A - B), line 215.
influence(M, n) == MatSub(Eye(n), MatSub(M, diagOf(M, n), n), n)

\* Line 215: np.dot(np.dot(inv(np.eye(N) - (A - B)), B), s).  With every matrix
\* scaled by Scale, inv(M) is Scale * adj / det and B is B / Scale, so entry a of
\* the result is the quotient <<(adj . B . s)[a], det>>.
expectedEquilibrium(M, s, n) ==
    LET B == diagOf(M, n)
        I == inv(influence(M, n), n)
    IN  IF I.kind = "error" THEN [kind |-> "error"]
        ELSE LET num == MatVec(MatMul(I.adj, B, n), s, n)
             IN  [kind |-> "return", x |-> [a \in Idx(n) |-> <<num[a], I.det>>]]

AVals == {0, 1, Scale}      \* the weights 0, 1 / Scale and 1
SVals == {-1, 5}            \* intrinsic beliefs

\* The size of the square matrix M: np.shape(A)[0], line 212.
Dim(M) == CHOOSE n \in 1 .. MaxEqN : DOMAIN M = Cells(n)

\* The arguments of the call.
EqStart ==
    /\ \E n \in 1 .. MaxEqN : eqA \in [Cells(n) -> AVals] /\ eqS \in [Idx(n) -> SVals]
    /\ eqX = None

ExpectedEquilibriumCall ==
    /\ eqA # None
    /\ eqX = None
    /\ eqX' = expectedEquilibrium(eqA, eqS, Dim(eqA))
    /\ UNCHANGED <<eqA, eqS>>
    /\ UNCHANGED <<rcVars, treeVars, gnpVars, saveVars>>

\* -------------------------------------------------- expectedEquilibrium claims
OffDiag(M, n, a) == {b \in Idx(n) : b # a}
\* I - (A - B) written out entry by entry, scaled by Scale.
ClaimM(M, n) == [c \in Cells(n) |-> IF c[1] = c[2] THEN Scale ELSE 0 - M[c]]

FullyStubborn(M, n) == \A c \in Cells(n) : c[1] # c[2] => M[c] = 0

\* C6 as stated: on a fully stubborn network (all off-diagonal entries zero)
\* expectedEquilibrium returns x equal to s exactly.
C6_StubbornReturnsS ==
    (eqX # None /\ FullyStubborn(eqA, Dim(eqA))) =>
        /\ eqX.kind = "return"
        /\ \A a \in Idx(Dim(eqA)) : eqX.x[a][1] = eqS[a] * eqX.x[a][2]

\* C6 amended: on a fully stubborn network expectedEquilibrium returns
\* x[i] = A[i,i] * s[i]; this is s exactly when every diagonal entry is 1, and
\* A = [[1]], s = [5] returns [5].
C6_StubbornReturnsDiagTimesS ==
    (eqX # None /\ FullyStubborn(eqA, Dim(eqA))) =>
        LET n == Dim(eqA)
        IN  /\ eqX.kind = "return"
            /\ \A a \in Idx(n) :
                 /\ eqX.x[a][2] # 0
                 /\ Scale * eqX.x[a][1] = eqA[<<a, a>>] * eqS[a] * eqX.x[a][2]
            /\ (\A a \in Idx(n) : eqA[<<a, a>>] = One) =>
                 \A a \in Idx(n) : eqX.x[a][1] = eqS[a] * eqX.x[a][2]
            /\ (n = 1 /\ eqA[<<0, 0>>] = One /\ eqS[0] = 5) =>
                 eqX.x[0][1] = 5 * eqX.x[0][2]

\* A fully stubborn pair: node 0 with stubbornness 1 keeps its belief, node 1
\* with stubbornness 1 / Scale does not.
C6_Witness ==
    /\ eqX # None
    /\ eqX.kind = "return"
    /\ Dim(eqA) = 2
    /\ FullyStubborn(eqA, 2)
    /\ eqA[<<0, 0>>] = One
    /\ eqA[<<1, 1>>] = 1
    /\ eqX.x[0][1] = eqS[0] * eqX.x[0][2]
    /\ eqX.x[1][1] # eqS[1] * eqX.x[1][2]

\* ------------------------------------------------------------- saveModelData
\* The directory at depth d is the start directory followed by d path components
\* "results"; cwd and dirs hold depths.  A file is <<depth of its directory,
\* <<simid, whether "_duplicate" was appended, field name>>>>, and files maps
\* each file to the number of the call that last wrote it (0: an earlier process).
SimIds == {"a", "b"}
ArrayNames == {"x"}
File(d, simid, dup, name) == <<d, <<simid, dup, name>>>>

\* Lines 235-262 for one call: simid and the names of the keyword arguments
\* that are numpy arrays (the others go into the metadata file).
saveModelData(simid, arrays) ==
    LET results == cwd + 1                                   \* ./results, from cwd
        dup == File(results, simid, FALSE, "metadata") \in DOMAIN files   \* line 247
        written == {File(results, simid, dup, name) : name \in arrays \cup {"metadata"}}
        call == Len(calls) + 1
    IN  /\ dirs' = dirs \cup {results}                        \* lines 236-237
        /\ cwd' = results                                     \* line 239
        /\ files' = [f \in DOMAIN files \cup written |->
                        IF f \in written THEN call ELSE files[f]]
        /\ calls' = Append(calls, [simid |-> simid, dir |-> results, dup |-> dup,
                                   written |-> written])

SaveModelDataCall ==
    /\ Len(calls) < MaxCalls
    /\ \E simid \in SimIds, arrays \in SUBSET ArrayNames : saveModelData(simid, arrays)
    /\ UNCHANGED <<rcVars, treeVars, gnpVars, eqVars>>

\* The process starts in a directory where results/ may exist already, empty or
\* holding the metadata file of an earlier process's simulation "a".
SaveStart ==
    /\ cwd = 0
    /\ calls = <<>>
    /\ \/ dirs = {0} /\ files = <<>>
       \/ dirs = {0, 1} /\ files = <<>>
       \/ dirs = {0, 1} /\ files = [f \in {File(1, "a", FALSE, "metadata")} |-> 0]

\* -------------------------------------------------------- saveModelData claims
\* C10: for the calls of one process, a call whose simid has a metadata file from
\* an earlier call detects it and writes under the simid with a suffix, so no
\* earlier call's file is overwritten; this holds for every later call with the
\* same simid, and all calls write into the same results directory.
C10_SameDirectorySuffixNoOverwrite ==
    \A k \in 1 .. Len(calls) :
        /\ calls[k].dir = calls[1].dir
        /\ (\E m \in 1 .. (k - 1) : calls[m].simid = calls[k].simid) => calls[k].dup
        /\ \A m \in 1 .. (k - 1) : calls[m].written \cap calls[k].written = {}

\* ------------------------------------------------------------ initial state
RcInit   == weights = <<>> /\ r = 0 /\ choice = None
TreeInit == tN = 0 /\ tNodes = <<>> /\ tWeighted = FALSE /\ tA = None
GnpInit  == /\ N = 0 /\ p = 0 /\ rand_weights = FALSE /\ verbose = FALSE /\ tree = None
            /\ A = None /\ i = 0 /\ j = 0 /\ pc = "idle" /\ deg = None /\ ret = None
EqInit   == eqA = None /\ eqS = None /\ eqX = None
SaveInit == cwd = 0 /\ dirs = {0} /\ files = <<>> /\ calls = <<>>

Init == RcInit /\ TreeInit /\ GnpInit /\ EqInit /\ SaveInit

SpecRchoice == Init /\ [][RchoiceCall]_vars
SpecTree    == Init /\ [][RandomSpanningTreeCall]_vars
GnpNext     == GnpCall \/ GnpIter \/ GnpReturn
SpecGnp     == Init /\ [][GnpNext]_vars
InitEq      == RcInit /\ TreeInit /\ GnpInit /\ EqStart /\ SaveInit
SpecEq      == InitEq /\ [][ExpectedEquilibriumCall]_vars
InitSave    == RcInit /\ TreeInit /\ GnpInit /\ EqInit /\ SaveStart
SpecSave    == InitSave /\ [][SaveModelDataCall]_vars
====
